---- MODULE Spec2Model ----
(***************************************************************************)
(* Model of run.py: the command-line driver that fine-tunes a causal       *)
(* language model with a LoRA adapter and the dual-objective trainer.      *)
(* main() parses the command line, run(args) performs the orchestration    *)
(* calls one after another.  Every call into a framework either returns or *)
(* raises; the driver has no try/except, so a raise ends the process.      *)
(*                                                                         *)
(* Strings are sequences of one-character strings, so that int(), float()  *)
(* and the f-string of logging_dir are computed, not assumed.              *)
(***************************************************************************)
EXTENDS Integers, Sequences, FiniteSets, TLC

\* ------------------------------------------------------------------ bounds
\* longest command line (number of tokens after the program name)
MaxArgv == 4

\* most optimizer steps one epoch over the dataset takes
MaxTrainSteps == 2

\* ------------------------------------------------------------ option names
OptBatchSize == "--batch_size"
OptLoadIn8bit == "--load_in_8bit"
OptOutputDir == "--output_dir"
OptModelId == "--model_id"
OptDatasetId == "--dataset_id"
OptAlpha == "--alpha"

\* the option strings main() registers with the parser
KnownOpts ==
  {OptBatchSize, OptLoadIn8bit, OptOutputDir, OptModelId, OptDatasetId, OptAlpha}

\* options that consume one argument (everything but the store_true flag)
ValuedOpts == KnownOpts \ {OptLoadIn8bit}

\* ------------------------------------------------------------- conversions
Digits == <<"0", "1", "2", "3", "4", "5", "6", "7", "8", "9">>

IsDigit(c) == \E i \in 1..10 : Digits[i] = c

DigitVal(c) == (CHOOSE i \in 1..10 : Digits[i] = c) - 1

AllDigits(s) == \A i \in 1..Len(s) : IsDigit(s[i])

RECURSIVE DigitsToInt(_)
\* value of a sequence of decimal digits, most significant first
DigitsToInt(s) ==
  IF s = <<>> THEN 0
  ELSE 10 * DigitsToInt(SubSeq(s, 1, Len(s) - 1)) + DigitVal(s[Len(s)])

\* type=int: int(text) succeeds on a non-empty run of digits
IntOk(s) == Len(s) > 0 /\ AllDigits(s)

IntOf(s) == DigitsToInt(s)

\* positions of "." in s
DotPositions(s) == {i \in 1..Len(s) : s[i] = "."}

RECURSIVE Normalize(_, _)
\* a decimal m * 10^-e with trailing zeros of the fraction removed
Normalize(m, e) ==
  IF m = 0 THEN <<0, 0>>
  ELSE IF e > 0 /\ m % 10 = 0 THEN Normalize(m \div 10, e - 1)
  ELSE <<m, e>>

\* type=float: float(text) succeeds on digits with at most one "." and at
\* least one digit
FloatOk(s) ==
  /\ Cardinality(DotPositions(s)) <= 1
  /\ \A i \in 1..Len(s) : IsDigit(s[i]) \/ s[i] = "."
  /\ \E i \in 1..Len(s) : IsDigit(s[i])

\* the float, as the pair <<m, e>> standing for m * 10^-e in lowest form
FloatOf(s) ==
  IF DotPositions(s) = {} THEN Normalize(DigitsToInt(s), 0)
  ELSE LET d == CHOOSE i \in DotPositions(s) : TRUE
           digits == SubSeq(s, 1, d - 1) \o SubSeq(s, d + 1, Len(s))
       IN Normalize(DigitsToInt(digits), Len(s) - d)

\* ---------------------------------------------------------------- defaults
DefaultBatchSize == 8

DefaultLoadIn8bit == FALSE

DefaultOutputDir == <<"t", "m", "p">>

DefaultModelId ==
  <<"c", "o", "d", "e", "l", "l", "a", "m", "a", "/",
    "C", "o", "d", "e", "L", "l", "a", "m", "a", "-", "7", "b", "-", "h", "f">>

DefaultDatasetId ==
  <<"z", "h", "a", "o", "s", "p", "e", "i", "/",
    "c", "m", "g", "_", "a", "l", "l", "i", "n", "o", "n", "e">>

\* 0.5
DefaultAlpha == <<5, 1>>

\* the namespace before any token is consumed
DefaultArgs ==
  [batch_size |-> DefaultBatchSize,
   load_in_8bit |-> DefaultLoadIn8bit,
   output_dir |-> DefaultOutputDir,
   model_id |-> DefaultModelId,
   dataset_id |-> DefaultDatasetId,
   alpha |-> DefaultAlpha]

\* ------------------------------------------------------------ command line
\* A token is an option string (opt # "") or a plain argument (text).
OptToken(o) == [opt |-> o, text |-> <<>>]

ArgToken(s) == [opt |-> "", text |-> s]

IsOptToken(t) == t.opt # ""

\* an option string the parser does not know
OptUnknown == "--enable_profiler"

\* plain arguments tried on the command line: "16", "0.25", "out"
ArgTexts == {<<"1", "6">>, <<"0", ".", "2", "5">>, <<"o", "u", "t">>}

Tokens ==
  {OptToken(o) : o \in KnownOpts \cup {OptUnknown}} \cup {ArgToken(s) : s \in ArgTexts}

CommandLines == UNION {[1..n -> Tokens] : n \in 0..MaxArgv}

\* the value an option stores for its argument, by the option's type=
ConvertOk(o, s) ==
  IF o = OptBatchSize THEN IntOk(s)
  ELSE IF o = OptAlpha THEN FloatOk(s)
  ELSE TRUE

\* variant: --output_dir is stored under model_id
StoreArg_WrongDest(ns, o, s) ==
  IF o = OptBatchSize THEN [ns EXCEPT !.batch_size = IntOf(s)]
  ELSE IF o = OptAlpha THEN [ns EXCEPT !.alpha = FloatOf(s)]
  ELSE IF o = OptOutputDir THEN [ns EXCEPT !.model_id = s]
  ELSE IF o = OptModelId THEN [ns EXCEPT !.model_id = s]
  ELSE [ns EXCEPT !.dataset_id = s]

StoreArg(ns, o, s) ==
  IF o = OptBatchSize THEN [ns EXCEPT !.batch_size = IntOf(s)]
  ELSE IF o = OptAlpha THEN [ns EXCEPT !.alpha = FloatOf(s)]
  ELSE IF o = OptOutputDir THEN [ns EXCEPT !.output_dir = s]
  ELSE IF o = OptModelId THEN [ns EXCEPT !.model_id = s]
  ELSE [ns EXCEPT !.dataset_id = s]

RECURSIVE ParseFrom(_, _, _)
\* parse_args: consume tokens left to right; [ok, ns].  A known valued
\* option takes the next token when that is a plain argument; the flag
\* stores True; anything else is a usage error.
ParseFrom(line, i, ns) ==
  IF i > Len(line) THEN [ok |-> TRUE, ns |-> ns]
  ELSE LET t == line[i] IN
    IF ~IsOptToken(t) THEN [ok |-> FALSE, ns |-> ns]
    ELSE IF t.opt = OptLoadIn8bit
      THEN ParseFrom(line, i + 1, [ns EXCEPT !.load_in_8bit = TRUE])
    ELSE IF t.opt \in ValuedOpts
      THEN IF i + 1 > Len(line) \/ IsOptToken(line[i + 1])
             THEN [ok |-> FALSE, ns |-> ns]
           ELSE IF ~ConvertOk(t.opt, line[i + 1].text)
             THEN [ok |-> FALSE, ns |-> ns]
           ELSE ParseFrom(line, i + 2, StoreArg(ns, t.opt, line[i + 1].text))
    ELSE [ok |-> FALSE, ns |-> ns]

ParseArgs(line) == ParseFrom(line, 1, DefaultArgs)

\* ------------------------------------------------------------------- state
\* An unassigned local is <<>>, an assigned one is <<value>>.
None == <<>>

Some(x) == <<x>>

Val(o) == o[1]

VARIABLES
  argv,             \* sys.argv[1:]
  pc,               \* the statement the process is about to execute
  args,             \* the parsed namespace
  trace,            \* the driver's steps, in the order they were started
  failed_at,        \* the step whose call raised, "" when none did
  tokenizer,        \* run: tokenizer
  tokenizer_from,   \* the identifier the tokenizer was loaded from
  model,            \* run: model
  train_dataset,    \* run: train_dataset
  cp_model,         \* create_peft_config: model (the parameter)
  peft_config,      \* create_peft_config: peft_config
  lora_config,      \* run: lora_config
  enable_profiler,  \* run: enable_profiler
  config,           \* run: config
  total_steps,      \* run: total_steps
  profiler,         \* run: profiler
  profiler_callback,\* run: profiler_callback
  training_args,    \* run: training_args
  data_collator,    \* run: data_collator
  trainer,          \* run: trainer
  in_with,          \* inside the "with profiler:" block
  profiler_steps,   \* number of profiler.step() calls made by the callback
  saved             \* the save_pretrained calls: <<[model, dir]>>

vars ==
  <<argv, pc, args, trace, failed_at, tokenizer, tokenizer_from, model,
    train_dataset, cp_model, peft_config, lora_config, enable_profiler, config, total_steps, profiler,
    profiler_callback, training_args, data_collator, trainer, in_with,
    profiler_steps, saved>>

\* the variables main() and the bookkeeping of every step write
ctl == <<pc, trace, failed_at>>

tokVars == <<tokenizer, tokenizer_from>>

peftVars == <<cp_model, peft_config, lora_config>>

profVars == <<enable_profiler, total_steps, profiler, profiler_callback>>

trainVars == <<training_args, data_collator, trainer, in_with, profiler_steps>>

Init ==
  /\ argv \in CommandLines
  /\ pc = "main"
  /\ args = None
  /\ trace = <<>>
  /\ failed_at = ""
  /\ tokenizer = None
  /\ tokenizer_from = None
  /\ model = None
  /\ train_dataset = None
  /\ cp_model = None
  /\ peft_config = None
  /\ lora_config = None
  /\ enable_profiler = None
  /\ config = None
  /\ total_steps = None
  /\ profiler = None
  /\ profiler_callback = None
  /\ training_args = None
  /\ data_collator = None
  /\ trainer = None
  /\ in_with = FALSE
  /\ profiler_steps = 0
  /\ saved = <<>>

\* a step that starts and returns
Step(name, next) ==
  /\ pc' = next
  /\ trace' = Append(trace, name)
  /\ failed_at' = failed_at

\* a call that raises: nothing in run catches it, the interpreter unwinds
Raise(name) ==
  /\ pc' = "failed"
  /\ trace' = Append(trace, name)
  /\ failed_at' = name

\* ------------------------------------------------------------------ main()
\* parser.parse_args(); run(args).  A usage error exits before run.
Main ==
  /\ pc = "main"
  /\ LET r == ParseArgs(argv) IN
       IF r.ok
         THEN /\ args' = Some(r.ns)
              /\ pc' = "L14"
         ELSE /\ args' = args
              /\ pc' = "usage_error"
  /\ UNCHANGED <<argv, trace, failed_at, tokVars, model, train_dataset,
                 peftVars, config, profVars, trainVars, saved>>

\* ------------------------------------------------------------- run(args)
\* what from_pretrained may hand back: the padding set-up is the checkpoint's
EosToken == "</s>"

LoadedTokenizers ==
  [eos_token : {EosToken}, pad_token : {"None", "<unk>"},
   padding_side : {"left", "right"}]

\* tokenizer = CodeLlamaTokenizer.from_pretrained(args.model_id)
LoadTokenizer ==
  /\ pc = "L14"
  /\ \/ /\ \E t \in LoadedTokenizers : tokenizer' = Some(t)
        /\ tokenizer_from' = Some(Val(args).model_id)
        /\ Step("load_tokenizer", "L15")
     \/ /\ Raise("load_tokenizer")
        /\ UNCHANGED tokVars
  /\ UNCHANGED <<argv, args, model, train_dataset, peftVars, config,
                 profVars, trainVars, saved>>

\* the object AutoModelForCausalLM.from_pretrained returns
BaseModel(id, in8bit) ==
  [from |-> id, load_in_8bit |-> in8bit, training |-> FALSE,
   int8_prepared |-> FALSE, peft |-> FALSE, peft_config |-> None]

\* model = AutoModelForCausalLM.from_pretrained(args.model_id, load_in_8bit=...)
LoadModel ==
  /\ pc = "L15"
  /\ \/ /\ model' = Some(BaseModel(Val(args).model_id, Val(args).load_in_8bit))
        /\ Step("load_model", "L16")
     \/ /\ Raise("load_model")
        /\ UNCHANGED model
  /\ UNCHANGED <<argv, args, tokVars, train_dataset, peftVars, config,
                 profVars, trainVars, saved>>

\* variant: the pad token is left as loaded
SetPadToken_Skips ==
  /\ pc = "L16"
  /\ tokenizer' = tokenizer
  /\ Step("set_pad_token", "L17")
  /\ UNCHANGED <<argv, args, tokenizer_from, model, train_dataset, peftVars,
                 config, profVars, trainVars, saved>>

\* tokenizer.pad_token = tokenizer.eos_token
SetPadToken ==
  /\ pc = "L16"
  /\ tokenizer' = Some([Val(tokenizer) EXCEPT !.pad_token = Val(tokenizer).eos_token])
  /\ Step("set_pad_token", "L17")
  /\ UNCHANGED <<argv, args, tokenizer_from, model, train_dataset, peftVars,
                 config, profVars, trainVars, saved>>

PaddingSide == "right"

\* tokenizer.padding_side = "right"
SetPaddingSide ==
  /\ pc = "L17"
  /\ tokenizer' = Some([Val(tokenizer) EXCEPT !.padding_side = PaddingSide])
  /\ Step("set_padding_side", "L18")
  /\ UNCHANGED <<argv, args, tokenizer_from, model, train_dataset, peftVars,
                 config, profVars, trainVars, saved>>

\* the arguments of get_preprocessed_data, kept with the dataset it returns
PreprocessedData(dataset_id, tok, split) ==
  [dataset_id |-> dataset_id, tokenizer |-> tok, split |-> split]

\* train_dataset = get_preprocessed_data(args.dataset_id, tokenizer, 'train')
GetPreprocessedData ==
  /\ pc = "L18"
  /\ \/ /\ train_dataset' =
             Some(PreprocessedData(Val(args).dataset_id, Val(tokenizer), "train"))
        /\ Step("get_preprocessed_data", "L20")
     \/ /\ Raise("get_preprocessed_data")
        /\ UNCHANGED train_dataset
  /\ UNCHANGED <<argv, args, tokVars, model, peftVars, config, profVars,
                 trainVars, saved>>

\* model.train()
ModelTrain ==
  /\ pc = "L20"
  /\ \/ /\ model' = Some([Val(model) EXCEPT !.training = TRUE])
        /\ Step("model.train", "L30")
     \/ /\ Raise("model.train")
        /\ UNCHANGED model
  /\ UNCHANGED <<argv, args, tokVars, train_dataset, peftVars, config,
                 profVars, trainVars, saved>>

\* ---------------------------------------------------- create_peft_config
\* from peft import get_peft_model, LoraConfig, TaskType,
\* prepare_model_for_int8_training; the call binds the parameter
ImportPeft ==
  /\ pc = "L30"
  /\ \/ /\ cp_model' = model
        /\ Step("import_peft", "L31")
     \/ /\ Raise("import_peft")
        /\ UNCHANGED cp_model
  /\ UNCHANGED <<argv, args, tokVars, model, train_dataset, peft_config,
                 lora_config, config, profVars, trainVars, saved>>

LoraR == 8

LoraAlpha == 32

\* 0.05
LoraDropout == <<5, 2>>

\* LoraConfig(task_type=TaskType.CAUSAL_LM, inference_mode=False, r=8, ...)
LoraConfig ==
  [task_type |-> "CAUSAL_LM", inference_mode |-> FALSE, r |-> LoraR,
   lora_alpha |-> LoraAlpha, lora_dropout |-> LoraDropout,
   target_modules |-> <<"q_proj", "v_proj">>]

NewLoraConfig ==
  /\ pc = "L31"
  /\ \/ /\ peft_config' = Some(LoraConfig)
        /\ Step("LoraConfig", "L40")
     \/ /\ Raise("LoraConfig")
        /\ UNCHANGED peft_config
  /\ UNCHANGED <<argv, args, tokVars, model, train_dataset, cp_model,
                 lora_config, config, profVars, trainVars, saved>>

\* variant: the int8 preparation is never reached
TestLoadIn8bit_Never ==
  /\ pc = "L40"
  /\ pc' = "L42"
  /\ UNCHANGED <<argv, args, trace, failed_at, tokVars, model, train_dataset,
                 peftVars, config, profVars, trainVars, saved>>

\* if args.load_in_8bit:
TestLoadIn8bit ==
  /\ pc = "L40"
  /\ pc' = IF Val(args).load_in_8bit THEN "L41" ELSE "L42"
  /\ UNCHANGED <<argv, args, trace, failed_at, tokVars, model, train_dataset,
                 peftVars, config, profVars, trainVars, saved>>

\* the model prepare_model_for_int8_training returns
PreparedForInt8(m) == [m EXCEPT !.int8_prepared = TRUE]

\* model = prepare_model_for_int8_training(model)
PrepareInt8 ==
  /\ pc = "L41"
  /\ \/ /\ cp_model' = Some(PreparedForInt8(Val(cp_model)))
        /\ Step("prepare_model_for_int8_training", "L42")
     \/ /\ Raise("prepare_model_for_int8_training")
        /\ UNCHANGED cp_model
  /\ UNCHANGED <<argv, args, tokVars, model, train_dataset, peft_config,
                 lora_config, config, profVars, trainVars, saved>>

\* the adapter-wrapped model get_peft_model returns
PeftModel(m, cfg) == [m EXCEPT !.peft = TRUE, !.peft_config = Some(cfg)]

\* model = get_peft_model(model, peft_config)
GetPeftModel ==
  /\ pc = "L42"
  /\ \/ /\ cp_model' = Some(PeftModel(Val(cp_model), Val(peft_config)))
        /\ Step("get_peft_model", "L43")
     \/ /\ Raise("get_peft_model")
        /\ UNCHANGED cp_model
  /\ UNCHANGED <<argv, args, tokVars, model, train_dataset, peft_config,
                 lora_config, config, profVars, trainVars, saved>>

\* model.print_trainable_parameters()
PrintTrainableParameters ==
  /\ pc = "L43"
  /\ \/ Step("print_trainable_parameters", "L44")
     \/ Raise("print_trainable_parameters")
  /\ UNCHANGED <<argv, args, tokVars, model, train_dataset, peftVars, config,
                 profVars, trainVars, saved>>

\* variant: the wrapped model is dropped, run keeps the base model
ReturnPeftConfig_KeepsBase ==
  /\ pc = "L44"
  /\ model' = model
  /\ lora_config' = peft_config
  /\ pc' = "L49"
  /\ UNCHANGED <<argv, args, trace, failed_at, tokVars, train_dataset, cp_model,
                 peft_config, config, profVars, trainVars, saved>>

\* return model, peft_config;  model, lora_config = create_peft_config(model)
ReturnPeftConfig ==
  /\ pc = "L44"
  /\ model' = cp_model
  /\ lora_config' = peft_config
  /\ pc' = "L49"
  /\ UNCHANGED <<argv, args, trace, failed_at, tokVars, train_dataset, cp_model,
                 peft_config, config, profVars, trainVars, saved>>

\* ------------------------------------------------------- profiler set-up
\* variant: enable_profiler = True
EnableProfiler_On == TRUE

\* enable_profiler = False
EnableProfiler == FALSE

SetEnableProfiler ==
  /\ pc = "L49"
  /\ enable_profiler' = Some(EnableProfiler)
  /\ pc' = "L52"
  /\ UNCHANGED <<argv, args, trace, failed_at, tokVars, model, train_dataset,
                 peftVars, config, total_steps, profiler, profiler_callback,
                 trainVars, saved>>

\* 1e-4
LearningRate == <<1, 4>>

NumTrainEpochs == 1

GradientAccumulationSteps == 2

\* variant: the batch size is the literal default, not args.batch_size
Config_FixedBatch(lora, batch_size) ==
  [lora_config |-> lora,
   learning_rate |-> LearningRate,
   num_train_epochs |-> NumTrainEpochs,
   gradient_accumulation_steps |-> GradientAccumulationSteps,
   per_device_train_batch_size |-> DefaultBatchSize,
   gradient_checkpointing |-> FALSE]

\* config = {'lora_config': ..., 'learning_rate': 1e-4, ...}
Config(lora, batch_size) ==
  [lora_config |-> lora,
   learning_rate |-> LearningRate,
   num_train_epochs |-> NumTrainEpochs,
   gradient_accumulation_steps |-> GradientAccumulationSteps,
   per_device_train_batch_size |-> batch_size,
   gradient_checkpointing |-> FALSE]

BuildConfig ==
  /\ pc = "L52"
  /\ config' = Some(Config(Val(lora_config), Val(args).batch_size))
  /\ Step("config", "L62")
  /\ UNCHANGED <<argv, args, tokVars, model, train_dataset, peftVars, profVars,
                 trainVars, saved>>

\* wait, warmup, active, repeat = 1, 1, 2, 1
Wait == 1

Warmup == 1

Active == 2

Repeat == 1

\* total_steps = (wait + warmup + active) * (1 + repeat)
TotalSteps == (Wait + Warmup + Active) * (1 + Repeat)

\* f"{args.output_dir}/logs/tensorboard"
TensorboardDir(output_dir) ==
  output_dir \o <<"/", "l", "o", "g", "s", "/", "t", "e", "n", "s", "o", "r",
                  "b", "o", "a", "r", "d">>

\* torch.profiler.profile(schedule=..., on_trace_ready=...handler(dir), ...)
TorchProfiler(output_dir) ==
  [kind |-> "torch.profiler.profile", trace_dir |-> Some(TensorboardDir(output_dir))]

\* nullcontext()
NullContext == [kind |-> "nullcontext", trace_dir |-> None]

\* ProfilerCallback(profiler)
ProfilerCallback(p) == [class |-> "ProfilerCallback", profiler |-> p]

\* if enable_profiler: ... profiler_callback = ProfilerCallback(profiler)
\* else: profiler = nullcontext()
SetUpProfiler ==
  /\ pc = "L62"
  /\ IF Val(enable_profiler)
       THEN /\ total_steps' = Some(TotalSteps)
            /\ profiler' = Some(TorchProfiler(Val(args).output_dir))
            /\ profiler_callback' =
                 Some(ProfilerCallback(TorchProfiler(Val(args).output_dir)))
       ELSE /\ profiler' = Some(NullContext)
            /\ UNCHANGED <<total_steps, profiler_callback>>
  /\ pc' = "L85"
  /\ UNCHANGED <<argv, args, trace, failed_at, tokVars, model, train_dataset,
                 peftVars, enable_profiler, config, trainVars, saved>>

\* ------------------------------------------------------- TrainingArguments
\* variant: the logs go under the literal "tmp"
LoggingDir_Tmp(output_dir) == <<"t", "m", "p", "/", "l", "o", "g", "s">>

\* f"{args.output_dir}/logs"
LoggingDir(output_dir) == output_dir \o <<"/", "l", "o", "g", "s">>

LoggingSteps == 10

\* variant: the profiling step limit is applied whatever enable_profiler is
MaxStepsArg_Always(enabled, total) == TotalSteps

\* max_steps=total_steps if enable_profiler else -1
MaxStepsArg(enabled, total) == IF enabled THEN Val(total) ELSE -1

\* {k:v for k,v in config.items() if k != 'lora_config'}
ConfigKwargs(cfg) == [k \in DOMAIN cfg \ {"lora_config"} |-> cfg[k]]

\* the keyword arguments TrainingArguments is constructed with
TrainingArgs(output_dir, max_steps, cfg) ==
  [output_dir |-> output_dir,
   overwrite_output_dir |-> TRUE,
   bf16 |-> TRUE,
   logging_dir |-> LoggingDir(output_dir),
   logging_strategy |-> "steps",
   logging_steps |-> LoggingSteps,
   save_strategy |-> "no",
   optim |-> "adamw_torch_fused",
   remove_unused_columns |-> FALSE,
   max_steps |-> max_steps] @@ ConfigKwargs(cfg)

NewTrainingArguments ==
  /\ pc = "L85"
  /\ \/ /\ training_args' =
             Some(TrainingArgs(Val(args).output_dir,
                               MaxStepsArg(Val(enable_profiler), total_steps),
                               Val(config)))
        /\ Step("TrainingArguments", "L100")
     \/ /\ Raise("TrainingArguments")
        /\ UNCHANGED training_args
  /\ UNCHANGED <<argv, args, tokVars, model, train_dataset, peftVars, config,
                 profVars, data_collator, trainer, in_with, profiler_steps, saved>>

\* data_collator = DualObjectiveDataCollator()
NewDataCollator ==
  /\ pc = "L100"
  /\ \/ /\ data_collator' = Some([class |-> "DualObjectiveDataCollator"])
        /\ Step("DualObjectiveDataCollator", "L102")
     \/ /\ Raise("DualObjectiveDataCollator")
        /\ UNCHANGED data_collator
  /\ UNCHANGED <<argv, args, tokVars, model, train_dataset, peftVars, config,
                 profVars, training_args, trainer, in_with, profiler_steps, saved>>

\* ----------------------------------------------------------- with profiler
\* with profiler:  (nullcontext.__enter__ cannot raise, the profiler's can)
EnterProfiler ==
  /\ pc = "L102"
  /\ \E ok \in IF Val(profiler).kind = "nullcontext" THEN {TRUE} ELSE BOOLEAN :
       IF ok
         THEN /\ in_with' = TRUE
              /\ Step("profiler.__enter__", "L104")
         ELSE /\ in_with' = in_with
              /\ Raise("profiler.__enter__")
  /\ UNCHANGED <<argv, args, tokVars, model, train_dataset, peftVars, config,
                 profVars, training_args, data_collator, trainer, profiler_steps,
                 saved>>

\* callbacks=[profiler_callback] if enable_profiler else []
Callbacks(enabled, cb) == IF enabled THEN <<Val(cb)>> ELSE <<>>

\* the keyword arguments DualObjectiveTrainer is constructed with
Trainer(alpha, m, targs, tok, ds, collator, callbacks) ==
  [alpha |-> alpha,
   output_rationale |-> FALSE,
   model |-> m,
   args |-> targs,
   tokenizer |-> tok,
   train_dataset |-> ds,
   data_collator |-> collator,
   callbacks |-> callbacks,
   global_step |-> 0]

\* variant: the trainer is constructed but trainer.train() is left out
NewTrainer_SkipsTrain ==
  /\ pc = "L104"
  /\ \/ /\ trainer' =
             Some(Trainer(Val(args).alpha, Val(model), Val(training_args),
                          Val(tokenizer), Val(train_dataset), Val(data_collator),
                          Callbacks(Val(enable_profiler), profiler_callback)))
        /\ Step("DualObjectiveTrainer", "L117")
        /\ UNCHANGED in_with
     \/ /\ Raise("DualObjectiveTrainer")
        /\ in_with' = FALSE
        /\ UNCHANGED trainer
  /\ UNCHANGED <<argv, args, tokVars, model, train_dataset, peftVars, config,
                 profVars, training_args, data_collator, profiler_steps, saved>>

\* trainer = DualObjectiveTrainer(alpha=args.alpha, ...); a raise leaves the
\* with block through __exit__, which does not swallow it
NewTrainer ==
  /\ pc = "L104"
  /\ \/ /\ trainer' =
             Some(Trainer(Val(args).alpha, Val(model), Val(training_args),
                          Val(tokenizer), Val(train_dataset), Val(data_collator),
                          Callbacks(Val(enable_profiler), profiler_callback)))
        /\ Step("DualObjectiveTrainer", "L116")
        /\ UNCHANGED in_with
     \/ /\ Raise("DualObjectiveTrainer")
        /\ in_with' = FALSE
        /\ UNCHANGED trainer
  /\ UNCHANGED <<argv, args, tokVars, model, train_dataset, peftVars, config,
                 profVars, training_args, data_collator, profiler_steps, saved>>

\* optimizer steps of a completed trainer.train(): max_steps when it is
\* positive, else as many as the epoch over the dataset has
StepsRun(max_steps) == IF max_steps > 0 THEN {max_steps} ELSE 0..MaxTrainSteps

\* ProfilerCallback.on_step_end: self.profiler.step(), once per callback in
\* the list at the end of each optimizer step
OnStepEnd(callbacks, n) == Len(callbacks) * n

\* variant: an exception of trainer.train() is caught and the run goes on
TrainerTrain_Swallows ==
  /\ pc = "L116"
  /\ \/ /\ \E n \in StepsRun(Val(trainer).args.max_steps) :
             /\ trainer' = Some([Val(trainer) EXCEPT !.global_step = n])
             /\ profiler_steps' =
                  profiler_steps + OnStepEnd(Val(trainer).callbacks, n)
        /\ Step("trainer.train", "L117")
        /\ UNCHANGED in_with
     \/ /\ \E n \in StepsRun(Val(trainer).args.max_steps) : \E k \in 0..n :
             /\ trainer' = Some([Val(trainer) EXCEPT !.global_step = k])
             /\ profiler_steps' =
                  profiler_steps + OnStepEnd(Val(trainer).callbacks, k)
        /\ pc' = "L117"
        /\ trace' = Append(trace, "trainer.train")
        /\ failed_at' = "trainer.train"
        /\ UNCHANGED in_with
  /\ UNCHANGED <<argv, args, tokVars, model, train_dataset, peftVars, config,
                 profVars, training_args, data_collator, saved>>

\* trainer.train(); a raise after k steps leaves the with block
TrainerTrain ==
  /\ pc = "L116"
  /\ \/ /\ \E n \in StepsRun(Val(trainer).args.max_steps) :
             /\ trainer' = Some([Val(trainer) EXCEPT !.global_step = n])
             /\ profiler_steps' =
                  profiler_steps + OnStepEnd(Val(trainer).callbacks, n)
        /\ Step("trainer.train", "L117")
        /\ UNCHANGED in_with
     \/ /\ \E n \in StepsRun(Val(trainer).args.max_steps) : \E k \in 0..n :
             /\ trainer' = Some([Val(trainer) EXCEPT !.global_step = k])
             /\ profiler_steps' =
                  profiler_steps + OnStepEnd(Val(trainer).callbacks, k)
        /\ Raise("trainer.train")
        /\ in_with' = FALSE
  /\ UNCHANGED <<argv, args, tokVars, model, train_dataset, peftVars, config,
                 profVars, training_args, data_collator, saved>>

\* end of the with block: profiler.__exit__(None, None, None)
ExitProfiler ==
  /\ pc = "L117"
  /\ in_with' = FALSE
  /\ \E ok \in IF Val(profiler).kind = "nullcontext" THEN {TRUE} ELSE BOOLEAN :
       IF ok THEN Step("profiler.__exit__", "L118")
             ELSE Raise("profiler.__exit__")
  /\ UNCHANGED <<argv, args, tokVars, model, train_dataset, peftVars, config,
                 profVars, training_args, data_collator, trainer, profiler_steps,
                 saved>>

\* model.save_pretrained(args.output_dir); run and main return
SavePretrained ==
  /\ pc = "L118"
  /\ \/ /\ saved' = Append(saved, [model |-> Val(model), dir |-> Val(args).output_dir])
        /\ Step("save_pretrained", "done")
     \/ /\ Raise("save_pretrained")
        /\ UNCHANGED saved
  /\ UNCHANGED <<argv, args, tokVars, model, train_dataset, peftVars, config,
                 profVars, trainVars>>

\* the exit status of the process
ExitCode ==
  IF pc = "done" THEN 0 ELSE IF pc = "failed" THEN 1 ELSE IF pc = "usage_error" THEN 2 ELSE -1

Next ==
  \/ Main
  \/ LoadTokenizer
  \/ LoadModel
  \/ SetPadToken
  \/ SetPaddingSide
  \/ GetPreprocessedData
  \/ ModelTrain
  \/ ImportPeft
  \/ NewLoraConfig
  \/ TestLoadIn8bit
  \/ PrepareInt8
  \/ GetPeftModel
  \/ PrintTrainableParameters
  \/ ReturnPeftConfig
  \/ SetEnableProfiler
  \/ BuildConfig
  \/ SetUpProfiler
  \/ NewTrainingArguments
  \/ NewDataCollator
  \/ EnterProfiler
  \/ NewTrainer
  \/ TrainerTrain
  \/ ExitProfiler
  \/ SavePretrained

Spec == Init /\ [][Next]_vars

TypeOK ==
  /\ pc \in {"main", "usage_error", "failed", "done", "L14", "L15", "L16", "L17",
             "L18", "L20", "L30", "L31", "L40", "L41", "L42", "L43", "L44", "L49",
             "L52", "L62", "L85", "L100", "L102", "L104", "L116", "L117", "L118"}
  /\ Len(args) <= 1
  /\ in_with \in BOOLEAN
  /\ profiler_steps \in Nat

\* ------------------------------------------------- reading the step trace
Started(name) == \E i \in 1..Len(trace) : trace[i] = name

Count(name) == Cardinality({i \in 1..Len(trace) : trace[i] = name})

\* position of the first start of a step (0 when it never started)
IndexOf(name) ==
  IF Started(name) THEN CHOOSE i \in 1..Len(trace) :
                          trace[i] = name /\ \A j \in 1..(i - 1) : trace[j] # name
  ELSE 0

IsPrefix(s, t) == Len(s) <= Len(t) /\ SubSeq(t, 1, Len(s)) = s

\* ----------------------------------------------------------------- C1
\* the steps the order is stated for, as the sequence a run without a
\* failure must show
OrderedSteps(in8bit) ==
  <<"load_tokenizer", "load_model">>
    \o (IF in8bit THEN <<"prepare_model_for_int8_training">> ELSE <<>>)
    \o <<"get_peft_model", "config", "TrainingArguments", "DualObjectiveDataCollator",
         "DualObjectiveTrainer", "trainer.train", "save_pretrained">>

NamedSteps ==
  {"load_tokenizer", "load_model", "prepare_model_for_int8_training",
   "get_peft_model", "config", "TrainingArguments", "DualObjectiveDataCollator",
   "DualObjectiveTrainer", "trainer.train", "save_pretrained"}

IsNamedStep(x) == x \in NamedSteps

\* C1: while no framework call has failed, the named steps started so far
\* are an initial part of the order tokenizer, base model, (8-bit only) int8
\* preparation, adapter wrapping, config, TrainingArguments, collator,
\* trainer, train, save; and a run that exits normally shows the whole
\* order, each step once.
C1_StepsInOrder ==
  (args # None /\ failed_at = "") =>
     LET named == SelectSeq(trace, IsNamedStep)
         order == OrderedSteps(Val(args).load_in_8bit)
     IN /\ IsPrefix(named, order)
        /\ pc = "done" => named = order

C1_Witness ==
  /\ pc = "done"
  /\ Val(args).load_in_8bit
  /\ Started("prepare_model_for_int8_training")
  /\ trace[Len(trace)] = "save_pretrained"

C3_FailurePropagates ==
  /\ \A i, j \in 1..Len(trace) : trace[i] = trace[j] => i = j
  /\ pc = "failed" <=> failed_at # ""
  /\ failed_at # "" =>
       /\ ExitCode = 1
       /\ trace[Len(trace)] = failed_at
       /\ ~ENABLED Next
       /\ ~in_with
       /\ saved = <<>>
       /\ failed_at # "save_pretrained" => ~Started("save_pretrained")

C3_Witness ==
  /\ pc = "failed"
  /\ failed_at = "trainer.train"
  /\ Val(trainer).global_step > 0
  /\ ~Started("save_pretrained")

\* ----------------------------------------------------------------- C4
\* C4: the base model is loaded with load_in_8bit equal to the flag;
\* prepare_model_for_int8_training is called exactly when the flag is set,
\* and then before get_peft_model; get_peft_model is called once whatever
\* the flag.
C4_Int8PreparationIffFlag ==
  /\ model # None => Val(model).load_in_8bit = Val(args).load_in_8bit
  /\ Started("prepare_model_for_int8_training") => Val(args).load_in_8bit
  /\ Count("prepare_model_for_int8_training") <= 1
  /\ Count("get_peft_model") <= 1
  /\ Started("get_peft_model") =>
       /\ Val(args).load_in_8bit <=> Started("prepare_model_for_int8_training")
       /\ Val(args).load_in_8bit =>
            IndexOf("prepare_model_for_int8_training") < IndexOf("get_peft_model")
  /\ (Started("get_peft_model") /\ failed_at # "get_peft_model") =>
       /\ Val(cp_model).peft
       /\ Val(cp_model).int8_prepared = Val(args).load_in_8bit
  /\ pc = "done" => Count("get_peft_model") = 1

C4_Witness ==
  /\ pc = "L43"
  /\ Val(args).load_in_8bit
  /\ Val(cp_model).int8_prepared
  /\ Val(cp_model).peft

\* ----------------------------------------------------------------- C5
\* positions at which an option string occurs on the command line
Occurrences(o) == {i \in 1..Len(argv) : argv[i].opt = o}

Given(o) == Occurrences(o) # {}

\* the argument supplied with the last occurrence of a given option
Supplied(o) ==
  LET last == CHOOSE i \in Occurrences(o) : \A j \in Occurrences(o) : j <= i
  IN argv[last + 1].text

\* the numbers the plain arguments "16" and "0.25" denote
SuppliedInt(s) == IF s = <<"1", "6">> THEN 16 ELSE -1

SuppliedFloat(s) ==
  IF s = <<"1", "6">> THEN <<16, 0>>
  ELSE IF s = <<"0", ".", "2", "5">> THEN <<25, 2>>
  ELSE <<-1, 0>>

\* C5: with no flags the parsed arguments are batch_size 8, load_in_8bit
\* false, output_dir 'tmp', model_id 'codellama/CodeLlama-7b-hf', dataset_id
\* 'zhaospei/cmg_allinone', alpha 0.5; on any accepted command line a flag
\* not given keeps that default and a flag given holds the supplied value.
C5_DefaultsAndSuppliedValues ==
  args # None =>
    LET a == Val(args) IN
    /\ a.batch_size = IF Given("--batch_size")
                        THEN SuppliedInt(Supplied("--batch_size")) ELSE 8
    /\ a.load_in_8bit = Given("--load_in_8bit")
    /\ a.output_dir = IF Given("--output_dir")
                        THEN Supplied("--output_dir") ELSE <<"t", "m", "p">>
    /\ a.model_id =
         IF Given("--model_id") THEN Supplied("--model_id")
         ELSE <<"c", "o", "d", "e", "l", "l", "a", "m", "a", "/", "C", "o", "d",
                "e", "L", "l", "a", "m", "a", "-", "7", "b", "-", "h", "f">>
    /\ a.dataset_id =
         IF Given("--dataset_id") THEN Supplied("--dataset_id")
         ELSE <<"z", "h", "a", "o", "s", "p", "e", "i", "/", "c", "m", "g", "_",
                "a", "l", "l", "i", "n", "o", "n", "e">>
    /\ a.alpha = IF Given("--alpha") THEN SuppliedFloat(Supplied("--alpha"))
                 ELSE <<5, 1>>

C5_Witness ==
  /\ args # None
  /\ Given("--batch_size")
  /\ Given("--output_dir")
  /\ ~Given("--alpha")
  /\ Val(args).batch_size = 16
  /\ Val(args).alpha = <<5, 1>>

\* ----------------------------------------------------------------- C6
\* C6: per_device_train_batch_size of the TrainingArguments is --batch_size,
\* the trainer's alpha is --alpha, tokenizer and model are both loaded from
\* --model_id, and get_preprocessed_data receives --dataset_id and the split
\* 'train'.
C6_ArgumentsReachCalls ==
  /\ training_args # None =>
       Val(training_args).per_device_train_batch_size = Val(args).batch_size
  /\ trainer # None =>
       /\ Val(trainer).alpha = Val(args).alpha
       /\ Val(trainer).args.per_device_train_batch_size = Val(args).batch_size
  /\ tokenizer_from # None => Val(tokenizer_from) = Val(args).model_id
  /\ model # None =>
       /\ Val(model).from = Val(args).model_id
       /\ Val(model).from = Val(tokenizer_from)
  /\ train_dataset # None =>
       /\ Val(train_dataset).dataset_id = Val(args).dataset_id
       /\ Val(train_dataset).split = "train"

C6_Witness ==
  /\ trainer # None
  /\ Val(trainer).args.per_device_train_batch_size = 16
  /\ Val(trainer).alpha = <<25, 2>>
  /\ Val(train_dataset).dataset_id = DefaultDatasetId

\* ----------------------------------------------------------------- C7
\* the directories the driver names as a place to write
WriteDestinations ==
  (IF training_args = None THEN {}
   ELSE {Val(training_args).output_dir, Val(training_args).logging_dir})
  \cup (IF profiler = None THEN {}
        ELSE {Val(profiler).trace_dir[i] : i \in 1..Len(Val(profiler).trace_dir)})
  \cup {saved[i].dir : i \in 1..Len(saved)}

\* C7: TrainingArguments.output_dir is --output_dir, logging_dir is
\* '<output_dir>/logs', save_pretrained is called with --output_dir, and the
\* driver names no other directory as a write destination.
C7_OutputDirIsTheDestination ==
  /\ training_args # None =>
       /\ Val(training_args).output_dir = Val(args).output_dir
       /\ Val(training_args).logging_dir =
            Val(args).output_dir \o <<"/", "l", "o", "g", "s">>
  /\ \A i \in 1..Len(saved) : saved[i].dir = Val(args).output_dir
  /\ args # None =>
       WriteDestinations \subseteq
         {Val(args).output_dir, Val(args).output_dir \o <<"/", "l", "o", "g", "s">>}

C7_Witness ==
  /\ pc = "done"
  /\ Val(args).output_dir = <<"o", "u", "t">>
  /\ saved[1].dir = <<"o", "u", "t">>
  /\ Val(training_args).logging_dir = <<"o", "u", "t", "/", "l", "o", "g", "s">>

C9_ProfilingNeverEnabled ==
  /\ enable_profiler # None => ~Val(enable_profiler)
  /\ profiler_callback = None
  /\ total_steps = None
  /\ profiler # None => Val(profiler).kind = "nullcontext"
  /\ training_args # None => Val(training_args).max_steps = -1
  /\ trainer # None => Val(trainer).callbacks = <<>>
  /\ profiler_steps = 0
  /\ (pc # "main" /\ \E i \in 1..Len(argv) : argv[i].opt = "--enable_profiler") =>
       pc = "usage_error"

C9_Witness ==
  /\ pc = "done"
  /\ Val(trainer).global_step > 0
  /\ profiler_steps = 0
  /\ Val(args).load_in_8bit
  /\ Val(args).batch_size = 16

\* ---------------------------------------------------------------- C10
Configured(tok) == tok.pad_token = tok.eos_token /\ tok.padding_side = "right"

\* C10: get_preprocessed_data and DualObjectiveTrainer both receive the
\* tokenizer with pad_token equal to its eos_token and padding_side
\* 'right', and from the second assignment on the tokenizer keeps those
\* settings.
C10_TokenizerConfiguredBeforeUse ==
  /\ train_dataset # None => Configured(Val(train_dataset).tokenizer)
  /\ trainer # None =>
       /\ Configured(Val(trainer).tokenizer)
       /\ Val(trainer).tokenizer = Val(train_dataset).tokenizer
  /\ Started("set_padding_side") =>
       /\ Configured(Val(tokenizer))
       /\ Val(tokenizer).pad_token = "</s>"
  /\ Started("get_preprocessed_data") =>
       /\ Started("set_pad_token")
       /\ Started("set_padding_side")
       /\ IndexOf("set_padding_side") < IndexOf("get_preprocessed_data")
  /\ Count("set_pad_token") <= 1
  /\ Count("set_padding_side") <= 1

C10_Witness ==
  /\ trainer # None
  /\ Configured(Val(trainer).tokenizer)
  /\ Configured(Val(train_dataset).tokenizer)
  /\ pc = "L116"

====
